---- MODULE Spec2Model ----
(***************************************************************************)
(* Model of the video composition pipeline of modal/vectcut_processor.py:  *)
(* VectCutProcessor.api / compose and the helpers they call.  One render   *)
(* request is followed from the api endpoint to the returned response.     *)
(* External commands (ffmpeg, cp), downloads and uploads are the           *)
(* environment: each may succeed or fail, and a command whose input file   *)
(* is missing always fails.  Scene, voiceover and transition times are in  *)
(* whole seconds; caption times are floats (see One).                      *)
(***************************************************************************)
EXTENDS Integers, Sequences, FiniteSets, TLC

VARIABLES
  request,        \* the VideoCompositionRequest (compose mutates request.music)
  pc,             \* position of the handler
  tempExists,     \* the TemporaryDirectory of compose exists
  files,          \* files of the temporary directory: path -> clip
  i,              \* index of the scene loop (1-based)
  scene_videos,   \* list of (path, transition_to_next) handed to the sequencer
  j,              \* index of the sequencing loop (1-based)
  composed_path,  \* the running composed clip of the sequencer
  response,       \* the VideoCompositionResponse being built by compose
  exc,            \* message of the exception that left compose, or Null
  result,         \* what the api endpoint returned
  blob,           \* the keys written to the blob store, in order
  fate,           \* history: what happened to each scene of the request
  joins,          \* history: how each boundary of the fold was joined
  draft_content   \* history: the draft_content.json of the bundle, <<>> if none

vars == <<request, pc, tempExists, files, i, scene_videos, j, composed_path,
          response, exc, result, blob, fate, joins, draft_content>>

\* Python's None, for optional strings.
Null == "None"

----------------------------------------------------------------------------
\* Bounds of the model.

MaxScenes == 3
MaxTransDur == 1
MaxCaptions == 2

Min(a, b) == IF a <= b THEN a ELSE b

RECURSIVE SumSeq(_)
SumSeq(s) == IF s = <<>> THEN 0 ELSE Head(s) + SumSeq(Tail(s))

SeqsUpTo(S, n) == UNION {[1..k -> S] : k \in 0..n}

----------------------------------------------------------------------------
\* The request model (pydantic classes).

\* Scene durations, in seconds.
Durations == {2, 3}

\* Lengths of the video a video_url can deliver, in seconds.
SourceLengths == {1, 3}

\* start_time and duration in seconds; volume is the factor of the volume
\* filter.
VoiceoverData(start, dur, vol) ==
  [audio_url |-> "http://vo", start_time |-> start, duration |-> dur,
   volume |-> vol]

SceneData(video, image, dur, trans, vos, strip) ==
  [video_url |-> video, image_url |-> image, duration |-> dur,
   transition_to_next |-> trans, voiceovers |-> vos,
   strip_original_audio |-> strip]

\* A caption time is a Python float, a binary fraction: the model keeps ten
\* fractional bits, so a float is a whole number of 1/1024 s and One is 1.0.
One == 1024

\* The float a decimal literal of ms thousandths of a second is read as: the
\* nearest binary fraction.  Float(500) is exactly 0.5; Float(1001) is a little
\* below 1.001, as the double nearest to 1.001 is.
Float(ms) == (ms * One + 500) \div 1000

\* The frame rate of the request (its default).
Fps == 30

\* The fields a caption can style itself with have the defaults of the
\* class.
CaptionData(text, start, end) ==
  [text |-> text, start_time |-> start, end_time |-> end,
   font_size |-> 36, font_color |-> "#FFFFFF",
   background_color |-> "#00000080", position |-> "bottom"]

CaptionStyleData ==
  [font_size |-> "medium", font_color |-> "#FFFFFF", bg_color |-> "#000000",
   bg_alpha |-> Float(700), position |-> "bottom", shadow |-> TRUE]

\* volume is a factor; fade_in, fade_out and start_offset are in seconds.
MusicData ==
  [audio_url |-> "http://music", volume |-> 3, fade_in |-> 2, fade_out |-> 2,
   start_offset |-> 1]

AudioSettingsData == [music_volume |-> 5, fade_in |-> 1, fade_out |-> 0]

\* Optional records (music, audio_settings, caption_style) are <<>> for None,
\* else <<record>>.
VideoCompositionRequest(scenes, captions, music, audio, fmt, style, td, srt, creds) ==
  [scenes |-> scenes, captions |-> captions, music |-> music,
   audio_settings |-> audio, caption_style |-> <<>>, fps |-> Fps,
   output_format |-> fmt, transition_style |-> style,
   transition_duration |-> td, include_srt |-> srt,
   s3_bucket |-> creds, s3_access_key |-> creds, s3_secret_key |-> creds]

\* A response with nothing populated but the status.
VideoCompositionResponse(status) ==
  [status |-> status, video_url |-> Null, video_base64 |-> Null,
   draft_url |-> Null, draft_base64 |-> Null, srt_content |-> <<>>,
   duration |-> 0, error |-> Null]

----------------------------------------------------------------------------
\* Files of the temporary directory.

ScenePath(k) == <<"scene", k>>
FinalScenePath(k) == <<"scene_final", k>>
ComposedPath(k) == <<"composed", k>>
CaptionedPath == <<"captioned", 0>>
FinalPath == <<"final", 0>>
DraftZipPath == <<"capcut_draft.zip", 0>>
NoPath == <<"", 0>>

NoFiles == <<>>

Exists(f, p) == p \in DOMAIN f

Put(f, p, c) == [q \in DOMAIN f \cup {p} |-> IF q = p THEN c ELSE f[q]]

\* subprocess.run(["cp", src, dst]): nothing is written when src is missing,
\* and nothing is raised (the exit status is not looked at).
Cp(f, src, dst) == IF Exists(f, src) THEN Put(f, dst, f[src]) ELSE f

\* The audio of a scene's own source: the sound of its video, or the silent
\* track image_to_video gives an image.
OriginalAudio == <<"original", 0>>

\* The k-th voiceover of a scene.
Voiceover(k) == <<"voiceover", k>>

\* A clip: its duration, the scenes it shows in order, how each boundary
\* between two of them is cut (an xfade transition, or "none" for a plain
\* cut), what is heard in its audio stream ({} for no audio stream), the
\* drawtext filters burned into it, the music command that mixed music into
\* it (music, <<>> for none), the voiceover command whose output it is
\* (mix, <<>> for none) and the kind of source each of its scenes was made
\* from (media: "video" or "image", in the order of ids).
Clip(dur, ids) ==
  [dur |-> dur, ids |-> ids, cuts |-> <<>>, audio |-> {OriginalAudio},
   caps |-> <<>>, music |-> <<>>, mix |-> <<>>, media |-> <<>>]

\* str.startswith.
StartsWith(s, prefix) ==
  Len(s) >= Len(prefix) /\ SubSeq(s, 1, Len(prefix)) = prefix

\* The base64 alphabet.
Base64Alphabet ==
  "ABCDEFGHIJKLMNOPQRSTUVWXYZabcdefghijklmnopqrstuvwxyz0123456789+/"

IsBase64Char(c) ==
  \E n \in 1..Len(Base64Alphabet) : SubSeq(Base64Alphabet, n, n) = c

RECURSIVE a2b_base64(_, _, _, _)
\* base64.b64decode(s) without validate: TRUE when it returns, FALSE when it
\* raises binascii.Error.  Characters outside the alphabet are skipped; a pad
\* that completes a quad ends the decoding; data that ends inside a quad
\* is an error.  k is the position in s, quad_pos the position in the quad,
\* pads the pads seen in it.
a2b_base64(s, k, quad_pos, pads) ==
  IF k > Len(s) THEN quad_pos = 0
  ELSE LET c == SubSeq(s, k, k)
       IN  IF c = "="
             THEN IF quad_pos >= 2
                    THEN IF quad_pos + pads + 1 >= 4 THEN TRUE
                         ELSE a2b_base64(s, k + 1, quad_pos, pads + 1)
                    ELSE a2b_base64(s, k + 1, quad_pos, pads)
             ELSE IF IsBase64Char(c)
               THEN a2b_base64(s, k + 1, (quad_pos + 1) % 4, 0)
               ELSE a2b_base64(s, k + 1, quad_pos, pads)

b64decode(s) == a2b_base64(s, 1, 0, 0)

\* The positions of the commas of s.
Commas(s) == {k \in 1..Len(s) : SubSeq(s, k, k) = ","}

\* url.split(",", 1)[1], for a url that has a comma.
AfterComma(url) ==
  LET k == CHOOSE x \in Commas(url) : \A y \in Commas(url) : x <= y
  IN  SubSeq(url, k + 1, Len(url))

\* The branch download_media takes for url.
Form(url) ==
  IF StartsWith(url, "data:") THEN "data"
  ELSE IF StartsWith(url, "http") THEN "http"
  ELSE "raw"

\* The values download_media can return for url; it never raises.  A remote
\* fetch succeeds or fails; a payload is decoded, and the unpacking of a
\* data URL without a comma raises ValueError.
download_media(url) ==
  CASE Form(url) = "data" ->
         IF Commas(url) = {} THEN {FALSE} ELSE {b64decode(AfterComma(url))}
    [] Form(url) = "http" -> BOOLEAN
    [] OTHER -> {b64decode(url)}

\* The payload b64decode is given for url.
Payload(url) ==
  CASE Form(url) = "data" -> IF Commas(url) = {} THEN "" ELSE AfterComma(url)
    [] Form(url) = "http" -> ""
    [] OTHER -> url

\* b64decode skipped characters of the payload of url: the bytes written are
\* not the media any encoder was given, and ffmpeg cannot read them.
Discards(url) ==
  \E k \in 1..Len(Payload(url)) :
    LET c == SubSeq(Payload(url), k, k) IN c # "=" /\ ~IsBase64Char(c)

----------------------------------------------------------------------------
\* The sequencer's two join operations.

RecognizedTransitions ==
  {"fade", "fadeIn", "fadeOut", "crossfade",
   "slideLeft", "slideleft", "wipeleft",
   "slideRight", "slideright", "wiperight",
   "zoomIn", "zoomin", "zoom", "zoomOut", "zoomout", "swoosh", "wipe"}

\* The filter apply_transition builds for a transition type: the xfade
\* transition of a recognized type, the concat filter for any other.
XfadeTransition(type) ==
  CASE type \in {"fade", "fadeIn", "fadeOut", "crossfade"} -> "fade"
    [] type \in {"slideLeft", "slideleft", "wipeleft"} -> "slideleft"
    [] type \in {"slideRight", "slideright", "wiperight"} -> "slideright"
    [] type \in {"zoomIn", "zoomin", "zoom"} -> "circlecrop"
    [] type \in {"zoomOut", "zoomout"} -> "circleopen"
    [] type \in {"swoosh", "wipe"} -> "wipeleft"
    [] OTHER -> "concat"

\* Mutant: the join point is the end of the first clip, nothing overlaps.
XfadeClipNoOverlap(a, b, td, transition) ==
  [Clip(a.dur + b.dur, a.ids \o b.ids)
     EXCEPT !.cuts = a.cuts \o <<transition>> \o b.cuts,
            !.audio = a.audio \cup b.audio,
            !.media = a.media \o b.media]

\* xfade with offset = duration1 - transition_duration: the two clips overlap
\* for transition_duration.
XfadeClip(a, b, td, transition) ==
  [Clip(a.dur + b.dur - td, a.ids \o b.ids)
     EXCEPT !.cuts = a.cuts \o <<transition>> \o b.cuts,
            !.audio = a.audio \cup b.audio,
            !.media = a.media \o b.media]

\* Mutant: the second input is played first.
ConcatClipSwapped(a, b) ==
  [Clip(a.dur + b.dur, b.ids \o a.ids)
     EXCEPT !.cuts = b.cuts \o <<"none">> \o a.cuts,
            !.audio = a.audio \cup b.audio,
            !.media = b.media \o a.media]

\* The inputs one after the other, in the order of the list.
ConcatClip(a, b) ==
  [Clip(a.dur + b.dur, a.ids \o b.ids)
     EXCEPT !.cuts = a.cuts \o <<"none">> \o b.cuts,
            !.audio = a.audio \cup b.audio,
            !.media = a.media \o b.media]

\* simple_concat(inputs, output): its outcomes, each the files afterwards, the
\* value returned and how the boundary was joined.
simple_concat(f, in1, in2, out) ==
  {[files |-> f, ok |-> FALSE, how |-> "lost"]}
  \cup
  (IF Exists(f, in1) /\ Exists(f, in2)
     THEN {[files |-> Put(f, out, ConcatClip(f[in1], f[in2])), ok |-> TRUE,
            how |-> "concat"]}
     ELSE {})

\* apply_transition(input1, input2, output, transition_type, duration): its
\* outcomes.  how is "xfade" (the effect was applied), "concat" (the concat
\* filter of an unrecognized type), "fallback" (the encoder failed and
\* simple_concat joined the clips), "lost" (the encoder and simple_concat both
\* failed) or "error" (an exception: the probe of input1 gave no duration).
apply_transition(f, in1, in2, out, type, td) ==
  \* float(probe1.stdout.strip()) raises; the except clause returns False
  {[files |-> f, ok |-> FALSE, how |-> "error"]}
  \cup
  (IF Exists(f, in1)
     THEN \* the encoder can apply the filter only to existing clips that
          \* have the audio stream it names ([0:a], [1:a]) and are at least as
          \* long as the overlap
          (IF /\ Exists(f, in2)
              /\ f[in1].audio # {} /\ f[in2].audio # {}
              /\ type \in RecognizedTransitions
                   => (td <= f[in1].dur /\ td <= f[in2].dur)
             THEN {[files |-> Put(f, out, IF type \in RecognizedTransitions
                                            THEN XfadeClip(f[in1], f[in2], td,
                                                           XfadeTransition(type))
                                            ELSE ConcatClip(f[in1], f[in2])),
                    ok |-> TRUE,
                    how |-> IF type \in RecognizedTransitions
                              THEN "xfade" ELSE "concat"]}
             ELSE {})
          \cup
          \* returncode != 0: fall back to simple_concat
          {[r EXCEPT !.how = IF r.ok THEN "fallback" ELSE "lost"]
             : r \in simple_concat(f, in1, in2, out)}
     ELSE {})

----------------------------------------------------------------------------
\* The scene normalizer (step 1 of compose).

Max(a, b) == IF a >= b THEN a ELSE b

RECURSIVE MaxEnd(_, _)
\* The end of the latest of the voiceovers of vos whose index is in ok.
MaxEnd(vos, ok) ==
  IF ok = {} THEN 0
  ELSE LET k == CHOOSE x \in ok : TRUE
       IN  Max(vos[k].start_time + vos[k].duration, MaxEnd(vos, ok \ {k}))

\* audio_files: the indexes in vos of the voiceovers that were downloaded
\* (ok), in the order of the list.
audio_files(vos, ok) ==
  SelectSeq([k \in 1..Len(vos) |-> k], LAMBDA k : k \in ok)

\* The voiceover command with filter n taking its delay and volume from the
\* n-th voiceover of the list rather than from the n-th downloaded one.
VoiceoverMixListOrder(vos, ok, strip) ==
  LET af == audio_files(vos, ok)
  IN  [inputs |-> <<OriginalAudio>> \o [n \in 1..Len(af) |-> Voiceover(af[n])],
       parts |-> [n \in 1..Len(af) |->
                    [input_idx |-> n,
                     delay_ms |-> vos[n].start_time * 1000,
                     volume |-> vos[n].volume]],
       original |-> ~strip,
       duration |-> IF ~strip THEN "first"
                    ELSE IF Len(af) > 1 THEN "longest" ELSE "direct"]

\* The ffmpeg command add_voiceovers builds once at least one voiceover is
\* downloaded.  inputs: what each -i carries, input 0 (the video) first;
\* parts: one adelay,volume filter per downloaded voiceover, reading
\* [input_idx:a]; original: [0:a] is the first input of amix; duration: the
\* duration option of amix, "direct" for the single filter that is mapped
\* without amix.
VoiceoverMix(vos, ok, strip) ==
  LET af == audio_files(vos, ok)
  IN  [inputs |-> <<OriginalAudio>> \o [n \in 1..Len(af) |-> Voiceover(af[n])],
       parts |-> [n \in 1..Len(af) |->
                    [input_idx |-> n,
                     delay_ms |-> vos[af[n]].start_time * 1000,
                     volume |-> vos[af[n]].volume]],
       original |-> ~strip,
       duration |-> IF ~strip THEN "first"
                    ELSE IF Len(af) > 1 THEN "longest" ELSE "direct"]

\* What is heard in the output of the command mix run on a clip whose audio
\* is own: own when [0:a] is mixed in, and the audio of every input a filter
\* reads.
Heard(mix, own) ==
  (IF mix.original THEN own ELSE {})
  \cup {mix.inputs[mix.parts[n].input_idx + 1] : n \in DOMAIN mix.parts}

\* add_voiceovers(input_video, output_video, voiceovers, 0, strip): its
\* outcomes.  It returns True on every path.
add_voiceovers(f, in, out, vos, strip) ==
  IF vos = <<>>
    THEN IF strip
           THEN \* ffmpeg -an; the exit status is not looked at
                {[files |-> f]}
                \cup (IF Exists(f, in)
                        THEN {[files |-> Put(f, out, [f[in] EXCEPT !.audio = {}])]}
                        ELSE {})
           ELSE {[files |-> Cp(f, in, out)]}
    ELSE \* ok: the voiceovers for which download_media returned True
         UNION {
           IF ok = {}
             THEN \* no voiceover could be downloaded
                  {[files |-> Cp(f, in, out)]}
             ELSE {[files |-> Cp(f, in, out)]}
                  \cup
                  (IF Exists(f, in)
                     THEN \* strip: only the voiceovers are mapped, and
                          \* -shortest ends the clip with the last of them;
                          \* else they are mixed with [0:a] for its length.
                          \* A filter reading an input the command does not
                          \* have makes ffmpeg exit non-zero (the cp above).
                          LET mix == VoiceoverMix(vos, ok, strip)
                          IN  IF \A n \in DOMAIN mix.parts :
                                   mix.parts[n].input_idx + 1 \in DOMAIN mix.inputs
                                THEN {[files |-> Put(f, out,
                                        [f[in] EXCEPT
                                           !.dur = IF strip
                                                     THEN Min(@, MaxEnd(vos, ok))
                                                     ELSE @,
                                           !.audio = Heard(mix, @),
                                           !.mix = <<mix>>])]}
                                ELSE {}
                     ELSE {})
           : ok \in {S \in SUBSET (1..Len(vos)) :
                       \A k \in 1..Len(vos) :
                         (k \in S) \in download_media(vos[k].audio_url)} }

\* The image branch of the scene loop: the image is fetched and turned into
\* a clip of the declared duration.
NormalizeImage(f, scene, k) ==
  UNION {
    IF ok
      THEN \* image_to_video returns False or True
           {[created |-> FALSE, files |-> f, fate |-> "normalize_failed"]}
           \cup
           (IF Discards(scene.image_url) THEN {}
            ELSE {[created |-> TRUE,
                   files |-> Put(f, ScenePath(k),
                                 [Clip(scene.duration, <<k>>) EXCEPT
                                    !.media = <<"image">>]),
                   fate |-> "ok"]})
      ELSE {[created |-> FALSE, files |-> f, fate |-> "fetch_failed"]}
    : ok \in download_media(scene.image_url) }

\* A scene loop that falls back to the image of a scene whose video could
\* not be downloaded.
VideoFetchFailedTryImage(f, scene, k) ==
  IF scene.image_url # Null
    THEN NormalizeImage(f, scene, k)
    ELSE {[created |-> FALSE, files |-> f, fate |-> "fetch_failed"]}

\* The video branch when download_media returned False: `continue`.
VideoFetchFailed(f, scene, k) ==
  {[created |-> FALSE, files |-> f, fate |-> "fetch_failed"]}

\* The first half of one iteration of the scene loop: fetch and normalize
\* scene k.  created is scene_created; a failed video download is the loop's
\* `continue`, which like created = FALSE appends nothing.
NormalizeScene(f, scene, k) ==
  IF scene.video_url # Null
    THEN UNION {
           IF ok
             THEN \* the exit status of the normalizing ffmpeg is not looked at
                  {[created |-> TRUE, files |-> f, fate |-> "normalize_failed"]}
                  \cup
                  \* -t trims a longer source and does not extend a shorter one
                  (IF Discards(scene.video_url) THEN {}
                   ELSE {[created |-> TRUE,
                          files |-> Put(f, ScenePath(k),
                                        [Clip(Min(scene.duration, len), <<k>>)
                                           EXCEPT !.media = <<"video">>]),
                          fate |-> "ok"] : len \in SourceLengths})
             ELSE VideoFetchFailed(f, scene, k)
           : ok \in download_media(scene.video_url) }
    ELSE IF scene.image_url # Null
      THEN NormalizeImage(f, scene, k)
      ELSE {[created |-> FALSE, files |-> f, fate |-> "no_media"]}

\* The second half: voiceovers, and the entry appended to scene_videos
\* (<<>> when nothing is appended).
FinishScene(n, scene, k) ==
  IF ~n.created
    THEN {[files |-> n.files, entry |-> <<>>]}
    ELSE IF Len(scene.voiceovers) > 0 \/ scene.strip_original_audio
      THEN {[files |-> v.files,
             entry |-> <<[path |-> FinalScenePath(k), scene |-> k,
                          transition |-> scene.transition_to_next]>>]
            : v \in add_voiceovers(n.files, ScenePath(k), FinalScenePath(k),
                                   scene.voiceovers, scene.strip_original_audio)}
      ELSE {[files |-> n.files,
             entry |-> <<[path |-> ScenePath(k), scene |-> k,
                          transition |-> scene.transition_to_next]>>]}

----------------------------------------------------------------------------
\* Caption burn-in, music, transcript, project bundle, upload.

HexDigits ==
  <<"0", "1", "2", "3", "4", "5", "6", "7", "8", "9", "a", "b", "c", "d", "e", "f">>

\* hex(n)[2:].zfill(2) for n < 256.
Hex2(n) == HexDigits[(n \div 16) + 1] \o HexDigits[(n % 16) + 1]

font_size_map(name) ==
  CASE name = "small" -> 28
    [] name = "medium" -> 36
    [] name = "large" -> 48
    [] OTHER -> 36

\* The drawtext filter burn_captions builds for one caption (the escaping of
\* the text is part of the filter syntax and is left out): what is drawn,
\* how, and the two times handed to enable='between(t,start,end)'.
drawtext(caption, style) ==
  [text |-> caption.text,
   fontsize |-> font_size_map(style.font_size),
   fontcolor |-> style.font_color,
   y |-> style.position,
   enable |-> <<caption.start_time, caption.end_time>>,
   boxcolor |-> style.bg_color \o Hex2((style.bg_alpha * 255) \div One),
   shadow |-> style.shadow]

\* ffmpeg's between(t, min, max) at frame n of a clip of fps frames a second:
\* 1 when min <= t <= max, both ends included.
between(n, fps, min, max) == min * fps <= n * One /\ n * One <= max * fps

\* Mutant: a failed overlay copies nothing.
burn_captionsNoFallback(f, in, out, captions, caption_style) ==
  IF captions = <<>>
    THEN {[files |-> Cp(f, in, out), ok |-> TRUE, how |-> "copy"]}
    ELSE LET style == IF caption_style # <<>> THEN caption_style[1]
                      ELSE CaptionStyleData
         IN  {[files |-> f, ok |-> TRUE, how |-> "failed"]}
             \cup
             (IF Exists(f, in)
                THEN {[files |-> Put(f, out,
                         [f[in] EXCEPT !.caps =
                            [k \in 1..Len(captions) |-> drawtext(captions[k], style)]]),
                       ok |-> TRUE, how |-> "burned"]}
                ELSE {})

\* burn_captions: its outcomes.  It returns True (ok) on every path; how is
\* "copy" (no captions), "burned" or "failed" (the input was copied).
burn_captions(f, in, out, captions, caption_style) ==
  IF captions = <<>>
    THEN {[files |-> Cp(f, in, out), ok |-> TRUE, how |-> "copy"]}
    ELSE LET style == IF caption_style # <<>> THEN caption_style[1]
                      ELSE CaptionStyleData
         IN  {[files |-> Cp(f, in, out), ok |-> TRUE, how |-> "failed"]}
             \cup
             (IF Exists(f, in)
                THEN {[files |-> Put(f, out,
                         [f[in] EXCEPT !.caps =
                            [k \in 1..Len(captions) |-> drawtext(captions[k], style)]]),
                       ok |-> TRUE, how |-> "burned"]}
                ELSE {})

\* The ffmpeg command of add_music with the fade-out starting where the video
\* ends.
MusicMixFadeAtEnd(music, video_duration) ==
  [volume |-> music.volume,
   fade_in |-> IF music.fade_in > 0
                 THEN <<[st |-> 0, d |-> music.fade_in]>> ELSE <<>>,
   fade_out |-> IF music.fade_out > 0
                  THEN <<[st |-> video_duration, d |-> music.fade_out]>>
                  ELSE <<>>,
   seek |-> 0,
   inputs |-> <<"0:a", "music">>,
   duration |-> "first"]

\* The ffmpeg command of add_music: the music input is scaled by volume, then
\* faded in (afade=t=in:st:d) and out (afade=t=out:st:d) when the length is
\* positive; it is read from its beginning (seek 0: the command has no
\* option that skips into it); amix takes [0:a] first, then [music], with
\* duration=first.
MusicMix(music, video_duration) ==
  [volume |-> music.volume,
   fade_in |-> IF music.fade_in > 0
                 THEN <<[st |-> 0, d |-> music.fade_in]>> ELSE <<>>,
   fade_out |-> IF music.fade_out > 0
                  THEN <<[st |-> video_duration - music.fade_out,
                          d |-> music.fade_out]>>
                  ELSE <<>>,
   seek |-> 0,
   inputs |-> <<"0:a", "music">>,
   duration |-> "first"]

\* add_music: its outcomes.  It returns True (ok) on every path; how is
\* "mixed", "failed" (the mix failed) or "fetch_failed".  duration=first and
\* -shortest leave the output as long as the input video.
add_music(f, in, out, music, video_duration) ==
  UNION {
    IF fetched
      THEN \* the mix failed: the input is copied
           {[files |-> Cp(f, in, out), ok |-> TRUE, how |-> "failed"]}
           \cup
           (IF Exists(f, in)
              THEN {[files |-> Put(f, out,
                       [f[in] EXCEPT
                          !.music = <<MusicMix(music, video_duration)>>]),
                     ok |-> TRUE, how |-> "mixed"]}
              ELSE {})
      ELSE \* the music could not be downloaded: the input is copied
           {[files |-> Cp(f, in, out), ok |-> TRUE, how |-> "fetch_failed"]}
    : fetched \in download_media(music.audio_url) }

\* format_time of generate_srt: the four fields of the timecode, each an
\* int() of a float, which truncates.
format_time(seconds) ==
  LET h == (seconds \div One) \div 3600
      m == ((seconds \div One) % 3600) \div 60
      s == (seconds \div One) % 60
      ms == ((seconds % One) * 1000) \div One
  IN  <<h, m, s, ms>>

\* Mutant: enumerate(captions) without its start, the blocks numbered from 0.
generate_srtFromZero(captions) ==
  [n \in 1..Len(captions) |->
     [number |-> n - 1, start |-> format_time(captions[n].start_time),
      end |-> format_time(captions[n].end_time), text |-> captions[n].text]]

\* generate_srt: one block per caption, numbered from 1.  A block is the
\* four lines appended for a caption: the number, the two timecodes around
\* " --> ", the text, and the empty line that ends it.
generate_srt(captions) ==
  [n \in 1..Len(captions) |->
     [number |-> n, start |-> format_time(captions[n].start_time),
      end |-> format_time(captions[n].end_time), text |-> captions[n].text]]

RECURSIVE Offsets(_, _)
\* The target start of each scene's video segment: timeline_offset before it.
Offsets(scenes, from) ==
  IF scenes = <<>> THEN <<>>
  ELSE <<from>> \o Offsets(Tail(scenes), from + Head(scenes).duration * 1000000)

\* int(t * 1000000) of a float t.
Microseconds(t) == (t \div One) * 1000000 + ((t % One) * 1000000) \div One

\* create_capcut_draft: the content of draft_content.json.
create_capcut_draft(scenes, captions, music) ==
  LET starts == Offsets(scenes, 0)
      timeline_offset == SumSeq([k \in 1..Len(scenes) |-> scenes[k].duration * 1000000])
  IN  [video_segments |->
         [k \in 1..Len(scenes) |->
            [start |-> starts[k], duration |-> scenes[k].duration * 1000000]],
       text_segments |->
         [k \in 1..Len(captions) |->
            [start |-> Microseconds(captions[k].start_time),
             duration |-> Microseconds(captions[k].end_time - captions[k].start_time),
             font_size |-> captions[k].font_size,
             font_color |-> captions[k].font_color,
             position |-> captions[k].position]],
       audio_segments |->
         IF music = <<>> THEN <<>>
         ELSE <<[volume |-> music[1].volume, start |-> 0, duration |-> timeline_offset]>>,
       duration |-> timeline_offset]

\* Mutant: the draft is built from the scenes that have a clip.
DraftScenesSurviving(req, videos) ==
  [k \in 1..Len(videos) |-> req.scenes[videos[k].scene]]

\* The scenes compose hands to create_capcut_draft: request.scenes.
DraftScenes(req, videos) == req.scenes

\* Mutant: the archive is not written.
ZipDraftMissing(f, draft) == f

\* zipfile.ZipFile(draft_zip, "w"): the archive is written to the temporary
\* directory.
ZipDraft(f, draft) == Put(f, DraftZipPath, draft)

VideoKey == "final.mp4"

\* Mutant: the bundle is uploaded under the video's key.
DraftKeyOfVideo == "final.mp4"

DraftKey == "capcut_draft.zip"

\* Mutant: nothing is encoded.
b64encodeNothing(key) == Null

\* base64.b64encode(f.read()).decode(): the inline form of the artifact that
\* would have been uploaded under key.
b64encode(key) == "base64:" \o key

\* Mutant: only the bucket is looked at.
upload_to_s3_BucketOnly(f, path, key, req, store) ==
  IF req.s3_bucket = Null
    THEN {[url |-> Null, blob |-> store]}
    ELSE {[url |-> Null, blob |-> store]}
         \cup
         (IF Exists(f, path)
            THEN {[url |-> "https://" \o key, blob |-> Append(store, key)]}
            ELSE {})

\* upload_to_s3(file_path, s3_key, request): the URL returned (Null for None)
\* and the blob store afterwards.  It never raises.
upload_to_s3(f, path, key, req, store) ==
  IF req.s3_bucket = Null \/ req.s3_access_key = Null \/ req.s3_secret_key = Null
    THEN {[url |-> Null, blob |-> store]}
    ELSE \* upload_file raised (rejected, or no such file): except returns None
         {[url |-> Null, blob |-> store]}
         \cup
         (IF Exists(f, path)
            THEN {[url |-> "https://" \o key, blob |-> Append(store, key)]}
            ELSE {})

----------------------------------------------------------------------------
\* The handler: api, which runs compose.

NoValidScenes == "No valid scene media could be processed"

\* Mutant: the error is written into the response compose was building.
ErrorResponsePartial(msg) == [response EXCEPT !.status = "error", !.error = msg]

ErrorResponse(msg) == [VideoCompositionResponse("error") EXCEPT !.error = msg]

\* Mutant: the directory is removed on a return only, an exception leaves it.
TemporaryDirectoryLeak(f, how) ==
  IF how = "raise" THEN [exists |-> TRUE, files |-> f]
  ELSE [exists |-> FALSE, files |-> NoFiles]

\* Leaving the `with tempfile.TemporaryDirectory()` block, by a return
\* (how = "return") or by an exception (how = "raise").
TemporaryDirectoryExit(f, how) == [exists |-> FALSE, files |-> NoFiles]

\* The requests that are rendered: a union of families, each varying one
\* part of the request.
ImageScene(dur, trans) == SceneData(Null, "http://image", dur, trans, <<>>, FALSE)
VideoScene(dur, trans) == SceneData("http://video", Null, dur, trans, <<>>, FALSE)

Credentials == {"key", Null}

Captions == {<<>>, <<CaptionData("a", Float(500), Float(2500))>>}

\* Sources and durations vary.
RequestsSources ==
  {VideoCompositionRequest(scenes, <<>>, <<>>, <<>>, "both", "fade", td, TRUE, "key") :
     scenes \in SeqsUpTo({ImageScene(dur, Null) : dur \in Durations}
                         \cup {VideoScene(dur, Null) : dur \in Durations},
                         MaxScenes - 1),
     td \in 1..MaxTransDur}

\* Transitions vary.
RequestsTransitions ==
  {VideoCompositionRequest(scenes, <<>>, <<>>, <<>>, "mp4", "fade", td, TRUE, Null) :
     scenes \in SeqsUpTo({ImageScene(3, trans) :
                            trans \in {Null, "fade", "slideLeft", "none"}},
                         MaxScenes),
     td \in 1..MaxTransDur}

\* Voiceovers and audio stripping vary.
RequestsVoiceovers ==
  {VideoCompositionRequest(scenes, <<>>, <<>>, <<>>, "mp4", "fade", td, TRUE, Null) :
     scenes \in SeqsUpTo({SceneData(Null, "http://image", 3, Null, vos, strip) :
                            vos \in {<<>>, <<VoiceoverData(1, 1, 1)>>},
                            strip \in BOOLEAN},
                         MaxScenes - 1),
     td \in 1..MaxTransDur}

\* Captions, music, output format and credentials vary.
RequestsOutputs ==
  {VideoCompositionRequest(scenes, captions, music, audio, fmt, style, td, srt, creds) :
     scenes \in {<<>>, <<ImageScene(2, Null)>>,
                 <<SceneData(Null, Null, 2, Null, <<>>, FALSE)>>,
                 <<VideoScene(3, Null), ImageScene(2, Null)>>},
     captions \in Captions,
     music \in {<<>>, <<MusicData>>},
     audio \in {<<>>, <<AudioSettingsData>>},
     fmt \in {"mp4", "draft", "both"},
     style \in {"fade", "none"},
     td \in 1..MaxTransDur,
     srt \in BOOLEAN,
     creds \in Credentials}

\* Each of the three storage credentials is present or absent.
RequestsCredentials ==
  {[VideoCompositionRequest(<<ImageScene(2, Null)>>, <<>>, <<>>, <<>>, fmt, "fade",
                            td, FALSE, Null)
      EXCEPT !.s3_bucket = bucket, !.s3_access_key = access,
             !.s3_secret_key = secret] :
     fmt \in {"mp4", "draft", "both"},
     td \in 1..MaxTransDur,
     bucket \in Credentials, access \in Credentials, secret \in Credentials}

\* One video scene whose audio is stripped or kept, with no, one or two
\* voiceovers.
RequestsStrip ==
  {VideoCompositionRequest(<<SceneData("http://video", Null, 3, Null, vos, strip)>>,
                           <<>>, <<>>, <<>>, "mp4", "fade", td, FALSE, Null) :
     vos \in {<<>>, <<VoiceoverData(1, 1, 1)>>,
              <<VoiceoverData(0, 1, 1), VoiceoverData(1, 3, 2)>>},
     strip \in BOOLEAN,
     td \in 1..MaxTransDur}

\* The times a caption starts or ends at: 0.5 s, 1.001 s, 2.5 s.
CaptionTimes == {Float(500), Float(1001), Float(2500)}

\* A caption that carries its own style.
StyledCaption(c) ==
  [c EXCEPT !.font_size = 48, !.font_color = "#FFFF00",
            !.background_color = "#FF000080", !.position = "top"]

\* Caption windows, the captions' own style and the global style vary.
RequestsCaptions ==
  {[VideoCompositionRequest(<<ImageScene(3, Null)>>, captions, <<>>, <<>>, "both",
                            "fade", td, TRUE, Null)
      EXCEPT !.caption_style = style] :
     captions \in SeqsUpTo({CaptionData("a", w[1], w[2]) :
                              w \in {x \in CaptionTimes \X CaptionTimes : x[1] < x[2]}}
                           \cup
                           {StyledCaption(CaptionData("b", Float(500), Float(2500)))},
                           MaxCaptions),
     style \in {<<>>, <<[CaptionStyleData EXCEPT !.font_size = "large",
                                                !.font_color = "#00FF00",
                                                !.position = "center"]>>},
     td \in 1..MaxTransDur}

\* The fade lengths of the music: negative, zero, positive.
FadeLengths == {-1, 0, 2}

\* Two image scenes joined by a fade, with music whose fades vary, with and
\* without audio_settings.
RequestsMusic ==
  {VideoCompositionRequest(<<ImageScene(2, Null), ImageScene(3, Null)>>, <<>>,
                           <<[MusicData EXCEPT !.fade_in = fade_in,
                                               !.fade_out = fade_out]>>,
                           audio, "both", "fade", td, FALSE, Null) :
     fade_in \in FadeLengths, fade_out \in FadeLengths,
     audio \in {<<>>, <<AudioSettingsData>>},
     td \in 1..MaxTransDur}

\* Source references: a remote URL, data URLs (well formed, without a
\* comma, with a payload that is not base64), raw payloads (well formed, not
\* base64), a URL of another scheme and a file path.
References ==
  {"http://video", "data:video/mp4;base64,AAAA", "data:nocomma", "data:x,abc",
   "AAAA", "abc", "ftp://host/abc.mp4", "/tmp/x.mp4"}

\* One scene whose video source is any of the references or absent, with or
\* without an image source.
RequestsReferences ==
  {VideoCompositionRequest(<<SceneData(video, image, 2, Null, <<>>, FALSE)>>,
                           <<>>, <<>>, <<>>, "mp4", "fade", td, FALSE, Null) :
     video \in References \cup {Null},
     image \in {Null, "http://image", "ftp://host/abc.mp4", "abc"},
     td \in 1..MaxTransDur}

\* Two image scenes, the first asking for a transition no branch of
\* apply_transition names.
RequestsUnrecognized ==
  {VideoCompositionRequest(<<ImageScene(2, "dissolve"), ImageScene(3, Null)>>,
                           <<>>, <<>>, <<>>, "mp4", "fade", td, FALSE, Null) :
     td \in 1..MaxTransDur}

Requests ==
  RequestsSources \cup RequestsTransitions \cup RequestsVoiceovers \cup RequestsOutputs
  \cup RequestsCredentials \cup RequestsCaptions \cup RequestsStrip
  \cup RequestsMusic \cup RequestsReferences \cup RequestsUnrecognized

Init ==
  /\ request \in Requests
  /\ pc = "api"
  /\ tempExists = FALSE
  /\ files = NoFiles
  /\ i = 0
  /\ scene_videos = <<>>
  /\ j = 0
  /\ composed_path = NoPath
  /\ response = VideoCompositionResponse(Null)
  /\ exc = Null
  /\ result = VideoCompositionResponse(Null)
  /\ blob = <<>>
  /\ fate = [k \in 1..Len(request.scenes) |-> "pending"]
  /\ joins = <<>>
  /\ draft_content = <<>>

\* api calls compose, which enters the TemporaryDirectory block.
Begin ==
  /\ pc = "api"
  /\ UNCHANGED draft_content
  /\ pc' = "scenes"
  /\ tempExists' = TRUE
  /\ files' = NoFiles
  /\ i' = 1
  /\ scene_videos' = <<>>
  /\ UNCHANGED <<request, j, composed_path, response, exc, result, blob, fate,
                 joins>>

\* One iteration of `for i, scene in enumerate(request.scenes)`.
ProcessScene ==
  /\ pc = "scenes"
  /\ UNCHANGED draft_content
  /\ i <= Len(request.scenes)
  /\ \E n \in NormalizeScene(files, request.scenes[i], i) :
       \E o \in FinishScene(n, request.scenes[i], i) :
         /\ files' = o.files
         /\ scene_videos' = scene_videos \o o.entry
         /\ fate' = [fate EXCEPT ![i] =
                       IF o.entry # <<>> /\ n.fate = "ok"
                          /\ ~Exists(o.files, o.entry[1].path)
                         THEN "strip_failed" ELSE n.fate]
  /\ i' = i + 1
  /\ UNCHANGED <<request, pc, tempExists, j, composed_path, response, exc,
                 result, blob, joins>>

\* Mutant: no check of scene_videos; scene_videos[0] raises on an empty list.
EndScenesUnchecked ==
  /\ pc = "scenes"
  /\ UNCHANGED draft_content
  /\ i > Len(request.scenes)
  /\ IF scene_videos = <<>>
       THEN /\ exc' = "IndexError"
            /\ pc' = "raised"
            /\ tempExists' = FALSE
            /\ files' = NoFiles
            /\ UNCHANGED <<j, composed_path>>
       ELSE /\ composed_path' = scene_videos[1].path
            /\ j' = 2
            /\ pc' = "compose"
            /\ UNCHANGED <<exc, tempExists, files>>
  /\ UNCHANGED <<request, i, scene_videos, response, result, blob, fate, joins>>

\* After the loop: `if not scene_videos: return ...`, else step 2 starts with
\* the first clip.
EndScenes ==
  /\ pc = "scenes"
  /\ UNCHANGED draft_content
  /\ i > Len(request.scenes)
  /\ IF scene_videos = <<>>
       THEN /\ response' = ErrorResponse(NoValidScenes)
            /\ pc' = "returned"
            /\ tempExists' = TemporaryDirectoryExit(files, "return").exists
            /\ files' = TemporaryDirectoryExit(files, "return").files
            /\ UNCHANGED <<j, composed_path>>
       ELSE /\ composed_path' = scene_videos[1].path
            /\ j' = 2
            /\ pc' = "compose"
            /\ UNCHANGED <<response, tempExists, files>>
  /\ UNCHANGED <<request, i, scene_videos, exc, result, blob, fate, joins>>

\* Mutant: the global style is used at every boundary.
PrevTransitionGlobal(req, videos, k) == req.transition_style

\* Mutant: the transition of the request's scene just before the scene of
\* scene_videos[k], whether or not that scene has a clip.
PrevTransitionOfRequest(req, videos, k) ==
  IF req.scenes[videos[k].scene - 1].transition_to_next # Null
    THEN req.scenes[videos[k].scene - 1].transition_to_next
    ELSE req.transition_style

\* The transition at the boundary before scene_videos[k].
PrevTransition(req, videos, k) ==
  IF videos[k - 1].transition # Null THEN videos[k - 1].transition
  ELSE req.transition_style

\* One iteration of `for i in range(1, len(scene_videos))`.
Join ==
  /\ pc = "compose"
  /\ UNCHANGED draft_content
  /\ j <= Len(scene_videos)
  /\ LET next_video == scene_videos[j].path
         prev_transition == PrevTransition(request, scene_videos, j)
         output_path == ComposedPath(j - 1)
     IN  \E r \in (IF prev_transition # "none"
                     THEN apply_transition(files, composed_path, next_video,
                            output_path, prev_transition,
                            request.transition_duration)
                     ELSE simple_concat(files, composed_path, next_video,
                            output_path)) :
           /\ files' = r.files
           /\ joins' = Append(joins, r.how)
           /\ composed_path' = output_path
  /\ j' = j + 1
  /\ UNCHANGED <<request, pc, tempExists, i, scene_videos, response, exc,
                 result, blob, fate>>

\* Step 3.
BurnCaptions ==
  /\ pc = "compose"
  /\ UNCHANGED draft_content
  /\ j > Len(scene_videos)
  /\ \E r \in burn_captions(files, composed_path, CaptionedPath, request.captions,
                           request.caption_style) :
       files' = r.files
  /\ pc' = "music"
  /\ UNCHANGED <<request, tempExists, i, scene_videos, j, composed_path,
                 response, exc, result, blob, fate, joins>>

\* Mutant: audio_settings is not written into request.music.
ApplyAudioSettingsNever(req) == req

\* request.music after audio_settings, if any, has been written into it.
ApplyAudioSettings(req) ==
  IF req.music # <<>> /\ req.audio_settings # <<>>
    THEN [req EXCEPT !.music = <<[@[1] EXCEPT
                         !.volume = req.audio_settings[1].music_volume,
                         !.fade_in = req.audio_settings[1].fade_in,
                         !.fade_out = req.audio_settings[1].fade_out]>>]
    ELSE req

\* video_duration of step 4: what ffprobe prints for captioned.mp4, or the
\* sum of the declared durations when it prints nothing.
video_duration(f, req) ==
  IF Exists(f, CaptionedPath) THEN f[CaptionedPath].dur
  ELSE SumSeq([k \in 1..Len(req.scenes) |-> req.scenes[k].duration])

\* Step 4.
AddMusic ==
  /\ pc = "music"
  /\ UNCHANGED draft_content
  /\ request' = ApplyAudioSettings(request)
  /\ \E r \in (IF request.music # <<>>
                 THEN add_music(files, CaptionedPath, FinalPath, request'.music[1],
                                video_duration(files, request'))
                 ELSE {[files |-> Cp(files, CaptionedPath, FinalPath)]}) :
       files' = r.files
  /\ pc' = "outputs"
  /\ UNCHANGED <<tempExists, i, scene_videos, j, composed_path, response, exc,
                 result, blob, fate, joins>>

\* Step 5, up to the transcript: the response is created, the final clip is
\* probed (a missing file leaves duration 0), the transcript is generated.
GenerateOutputs ==
  /\ pc = "outputs"
  /\ UNCHANGED draft_content
  /\ response' =
       [VideoCompositionResponse("complete") EXCEPT
          !.duration = IF Exists(files, FinalPath) THEN files[FinalPath].dur ELSE 0,
          !.srt_content = IF request.include_srt /\ request.captions # <<>>
                            THEN generate_srt(request.captions) ELSE <<>>]
  /\ pc' = "video"
  /\ UNCHANGED <<request, tempExists, files, i, scene_videos, j, composed_path,
                 exc, result, blob, fate, joins>>

\* Step 5, `if request.output_format in ["mp4", "both"]`.
ExportVideo ==
  /\ pc = "video"
  /\ UNCHANGED draft_content
  /\ IF request.output_format \in {"mp4", "both"}
       THEN \E u \in upload_to_s3(files, FinalPath, VideoKey, request, blob) :
              /\ blob' = u.blob
              /\ IF u.url # Null
                   THEN /\ response' = [response EXCEPT !.video_url = u.url]
                        /\ pc' = "draft"
                        /\ UNCHANGED <<exc, tempExists, files>>
                   ELSE IF Exists(files, FinalPath)
                     THEN /\ response' = [response EXCEPT
                                            !.video_base64 = b64encode(VideoKey)]
                          /\ pc' = "draft"
                          /\ UNCHANGED <<exc, tempExists, files>>
                     ELSE \* open(final_path, "rb") raises
                          /\ exc' = "FileNotFoundError"
                          /\ pc' = "raised"
                          /\ tempExists' = TemporaryDirectoryExit(files, "raise").exists
                          /\ files' = TemporaryDirectoryExit(files, "raise").files
                          /\ UNCHANGED response
       ELSE /\ pc' = "draft"
            /\ UNCHANGED <<blob, response, exc, tempExists, files>>
  /\ UNCHANGED <<request, i, scene_videos, j, composed_path, result, fate,
                 joins>>

\* Step 5, `if request.output_format in ["draft", "both"]`, and the return.
ExportDraft ==
  /\ pc = "draft"
  /\ IF request.output_format \in {"draft", "both"}
       THEN LET content == create_capcut_draft(DraftScenes(request, scene_videos),
                                               request.captions, request.music)
                zipped == ZipDraft(files, content)
            IN  \E u \in upload_to_s3(zipped, DraftZipPath, DraftKey, request, blob) :
                  /\ draft_content' = <<content>>
                  /\ blob' = u.blob
                  /\ IF u.url # Null
                       THEN /\ response' = [response EXCEPT !.draft_url = u.url]
                            /\ pc' = "returned"
                            /\ tempExists' = TemporaryDirectoryExit(zipped, "return").exists
                            /\ files' = TemporaryDirectoryExit(zipped, "return").files
                            /\ UNCHANGED exc
                       ELSE IF Exists(zipped, DraftZipPath)
                         THEN /\ response' = [response EXCEPT
                                                !.draft_base64 = b64encode(DraftKey)]
                              /\ pc' = "returned"
                              /\ tempExists' = TemporaryDirectoryExit(zipped, "return").exists
                              /\ files' = TemporaryDirectoryExit(zipped, "return").files
                              /\ UNCHANGED exc
                         ELSE \* open(draft_zip, "rb") raises
                              /\ exc' = "FileNotFoundError"
                              /\ pc' = "raised"
                              /\ tempExists' = TemporaryDirectoryExit(zipped, "raise").exists
                              /\ files' = TemporaryDirectoryExit(zipped, "raise").files
                              /\ UNCHANGED response
       ELSE /\ pc' = "returned"
            /\ tempExists' = TemporaryDirectoryExit(files, "return").exists
            /\ files' = TemporaryDirectoryExit(files, "return").files
            /\ UNCHANGED <<blob, response, exc, draft_content>>
  /\ UNCHANGED <<request, i, scene_videos, j, composed_path, result, fate,
                 joins>>

\* api: `return self.compose.local(request)`.
ApiReturn ==
  /\ pc = "returned"
  /\ UNCHANGED draft_content
  /\ result' = response
  /\ pc' = "done"
  /\ UNCHANGED <<request, tempExists, files, i, scene_videos, j, composed_path,
                 response, exc, blob, fate, joins>>

\* api: `except Exception as e: return VideoCompositionResponse(status="error", ...)`.
ApiCatch ==
  /\ pc = "raised"
  /\ UNCHANGED draft_content
  /\ result' = ErrorResponse(exc)
  /\ pc' = "done"
  /\ UNCHANGED <<request, tempExists, files, i, scene_videos, j, composed_path,
                 response, exc, blob, fate, joins>>

Next ==
  \/ Begin
  \/ ProcessScene
  \/ EndScenes
  \/ Join
  \/ BurnCaptions
  \/ AddMusic
  \/ GenerateOutputs
  \/ ExportVideo
  \/ ExportDraft
  \/ ApiReturn
  \/ ApiCatch

Spec == Init /\ [][Next]_vars

----------------------------------------------------------------------------
\* Properties.

\* The scene loop has run to its end.
LoopDone == pc \notin {"api", "scenes"}

\* The sequencer's fold has run to its end and caption burn-in has not begun.
FoldFinished == pc = "compose" /\ j > Len(scene_videos)

\* Every clip handed to the sequencer exists.
AllClipsExist == \A k \in 1..Len(scene_videos) : Exists(files, scene_videos[k].path)

\* The sum of the durations of the clips handed to the sequencer.
SumClipDurations ==
  SumSeq([k \in 1..Len(scene_videos) |-> files[scene_videos[k].path].dur])

\* The number of boundaries at which a transition effect was applied.
Overlaps == Cardinality({k \in 1..Len(joins) : joins[k] = "xfade"})

\* C1 as stated: the clip the fold produces lasts the sum of the clip
\* durations minus the transition duration at each of the boundaries.
C1_AsStated ==
  (FoldFinished /\ Exists(files, composed_path))
    => files[composed_path].dur =
         SumClipDurations - request.transition_duration * (Len(scene_videos) - 1)

\* C1, amended: the fold leaves a composed clip exactly when every scene clip
\* exists and no join failed outright, and that clip lasts the sum of the clip
\* durations minus the transition duration at each boundary where a
\* transition effect was applied (a boundary joined by concatenation
\* subtracts nothing).
C1_FoldDuration ==
  FoldFinished =>
    /\ Exists(files, composed_path)
         <=> (AllClipsExist /\ \A k \in 1..Len(joins) : joins[k] \notin {"lost", "error"})
    /\ Exists(files, composed_path) =>
         files[composed_path].dur =
           SumClipDurations - request.transition_duration * Overlaps

\* Three 3 s scenes joined by a 1 s fade and a 1 s slideLeft give 7 s.
C1_Witness ==
  /\ FoldFinished
  /\ Len(scene_videos) = 3
  /\ \A k \in 1..3 : Exists(files, scene_videos[k].path)
                     /\ files[scene_videos[k].path].dur = 3
  /\ scene_videos[1].transition = "fade"
  /\ scene_videos[2].transition = "slideLeft"
  /\ request.transition_duration = 1
  /\ joins = <<"xfade", "xfade">>
  /\ Exists(files, composed_path)
  /\ files[composed_path].dur = 7

\* The scenes that have an entry in scene_videos.
Survivors == {scene_videos[k].scene : k \in 1..Len(scene_videos)}

\* C2 as stated: a scene whose source could not be fetched, or whose
\* normalization failed, is never appended to the clips handed to the
\* sequencer.
C2_FailedSceneDropped ==
  \A k \in 1..Len(request.scenes) :
    fate[k] \in {"fetch_failed", "normalize_failed", "no_media"} => k \notin Survivors

C4_StageFailureNeverError ==
  (/\ pc = "done"
   /\ scene_videos # <<>>
   /\ \A k \in Survivors : fate[k] = "ok")
    => result.status = "complete"

\* C5 as stated: in the fold, when every scene clip exists, the running
\* composed clip exists and shows every clip folded so far, in order.
C5_ComposedAlwaysExists ==
  (pc = "compose" /\ AllClipsExist) =>
     /\ Exists(files, composed_path)
     /\ files[composed_path].ids = [k \in 1..(j - 1) |-> scene_videos[k].scene]

\* C6 as stated: when some sources are unreachable and every other scene is
\* fetched and normalized, the result is complete and built from those scenes
\* only; with exactly one of them, an image, the result lasts its declared
\* duration.
C6_UnreachableScenesSkipped ==
  LET valid == {k \in 1..Len(request.scenes) : fate[k] = "ok"}
  IN  (/\ pc = "done"
       /\ valid # {}
       /\ \E k \in 1..Len(request.scenes) : fate[k] = "fetch_failed"
       /\ \A k \in 1..Len(request.scenes) : fate[k] \in {"ok", "fetch_failed"})
        => /\ result.status = "complete"
           /\ Survivors = valid
           /\ \A k \in valid :
                (valid = {k} /\ request.scenes[k].video_url = Null)
                  => result.duration = request.scenes[k].duration

\* C7: a result with status error carries an error message and no video
\* locator, no bundle locator and no transcript; api always returns a result,
\* an exception of compose becoming such an error result.
C7_ErrorHasNoArtifacts ==
  /\ pc = "raised" => exc # Null
  /\ pc = "done" =>
       /\ result.status \in {"complete", "error"}
       /\ exc # Null => (result.status = "error" /\ result.error = exc)
       /\ result.status = "error" =>
            /\ result.error # Null
            /\ result.video_url = Null /\ result.video_base64 = Null
            /\ result.draft_url = Null /\ result.draft_base64 = Null
            /\ result.srt_content = <<>>

\* An exception left compose after the transcript had been generated; the
\* result is an error without it.
C7_Witness ==
  /\ pc = "done"
  /\ exc # Null
  /\ response.srt_content # <<>>
  /\ result.status = "error"
  /\ result.srt_content = <<>>

\* C8: a render that ends with status error has written nothing to the blob
\* store: once an artifact is uploaded, the request does not fail.
C8_ErrorMeansNoUpload ==
  /\ pc = "raised" => blob = <<>>
  /\ (pc = "done" /\ result.status = "error") => blob = <<>>

\* A render with credentials and both artifacts requested failed by an
\* exception in the export stage.
C8_Witness ==
  /\ pc = "done"
  /\ result.status = "error"
  /\ exc # Null
  /\ request.s3_bucket # Null
  /\ request.output_format = "both"
  /\ blob = <<>>

\* C9: an upload happens only in the export stage, after the scene loop, the
\* fold, caption burn-in and music mixing have finished, and each artifact is
\* uploaded at most once.
C9_UploadAfterTimeline ==
  /\ blob # <<>> =>
       /\ pc \in {"draft", "returned", "done"}
       /\ i > Len(request.scenes)
       /\ j > Len(scene_videos)
       /\ response.status = "complete"
  /\ \A a, b \in 1..Len(blob) : blob[a] = blob[b] => a = b
  /\ \A a \in 1..Len(blob) : blob[a] \in {VideoKey, DraftKey}

\* Both artifacts were uploaded.
C9_Witness ==
  /\ pc = "done"
  /\ blob = <<VideoKey, DraftKey>>
  /\ result.video_url # Null
  /\ result.draft_url # Null

\* C10: the temporary directory exists exactly while compose runs: it is gone
\* once compose has returned or raised.
C10_TempDirRemoved ==
  /\ pc \in {"returned", "raised", "done"} => (~tempExists /\ files = NoFiles)
  /\ pc \in {"scenes", "compose", "music", "outputs", "video", "draft"} => tempExists

\* compose raised, and the directory it had created is gone.
C10_Witness ==
  /\ pc = "raised"
  /\ exc = "FileNotFoundError"
  /\ scene_videos # <<>>
  /\ ~tempExists

\* The three storage credentials were all supplied.
HasCredentials(req) ==
  req.s3_bucket # Null /\ req.s3_access_key # Null /\ req.s3_secret_key # Null

\* Exactly one of the two locators of an artifact is populated.
ExactlyOne(url, b64) == (url # Null) # (b64 # Null)

\* C11 as stated: in a complete result each requested artifact has exactly
\* one locator, the remote URL when storage credentials were supplied and the
\* inline bytes when they were not, and an artifact that was not requested has
\* none.
C11_AsStated ==
  (pc = "done" /\ result.status = "complete") =>
     /\ IF request.output_format \in {"mp4", "both"}
          THEN /\ ExactlyOne(result.video_url, result.video_base64)
               /\ HasCredentials(request) <=> result.video_url # Null
          ELSE result.video_url = Null /\ result.video_base64 = Null
     /\ IF request.output_format \in {"draft", "both"}
          THEN /\ ExactlyOne(result.draft_url, result.draft_base64)
               /\ HasCredentials(request) <=> result.draft_url # Null
          ELSE result.draft_url = Null /\ result.draft_base64 = Null

\* C11, amended: in a complete result each requested artifact has exactly one
\* locator and an artifact that was not requested has none; the locator is
\* the remote URL exactly when the artifact was uploaded, which needs all
\* three storage credentials, and the inline bytes otherwise (no credentials,
\* or the upload was rejected).
C11_OneLocatorPerArtifact ==
  (pc = "done" /\ result.status = "complete") =>
     /\ IF request.output_format \in {"mp4", "both"}
          THEN /\ ExactlyOne(result.video_url, result.video_base64)
               /\ result.video_url # Null
                    <=> \E a \in 1..Len(blob) : blob[a] = VideoKey
               /\ result.video_url # Null => HasCredentials(request)
          ELSE result.video_url = Null /\ result.video_base64 = Null
     /\ IF request.output_format \in {"draft", "both"}
          THEN /\ ExactlyOne(result.draft_url, result.draft_base64)
               /\ result.draft_url # Null
                    <=> \E a \in 1..Len(blob) : blob[a] = DraftKey
               /\ result.draft_url # Null => HasCredentials(request)
          ELSE result.draft_url = Null /\ result.draft_base64 = Null

\* Credentials were supplied and both artifacts requested: the video was
\* uploaded and the bundle, whose upload was rejected, is delivered inline.
C11_Witness ==
  /\ pc = "done"
  /\ result.status = "complete"
  /\ request.output_format = "both"
  /\ HasCredentials(request)
  /\ result.video_url # Null /\ result.video_base64 = Null
  /\ result.draft_url = Null /\ result.draft_base64 # Null

\* C12: with any of the three credentials absent nothing is ever uploaded;
\* the export of an artifact whose file exists never raises and delivers it
\* either by URL, the upload having been made, or inline, nothing having been
\* uploaded; and the export of one artifact leaves the locators of the other
\* as they were.
C12_UploadFallback ==
  [][/\ ~HasCredentials(request) => blob' = blob
     /\ (/\ pc = "video"
         /\ request.output_format \in {"mp4", "both"}
         /\ Exists(files, FinalPath))
          => /\ pc' = "draft"
             /\ exc' = Null
             /\ \/ /\ blob' = Append(blob, VideoKey)
                   /\ response'.video_url # Null
                   /\ response'.video_base64 = Null
                \/ /\ blob' = blob
                   /\ response'.video_url = Null
                   /\ response'.video_base64 # Null
             /\ response'.draft_url = response.draft_url
             /\ response'.draft_base64 = response.draft_base64
     /\ (/\ pc = "draft"
         /\ request.output_format \in {"draft", "both"})
          => /\ pc' = "returned"
             /\ exc' = Null
             /\ \/ /\ blob' = Append(blob, DraftKey)
                   /\ response'.draft_url # Null
                   /\ response'.draft_base64 = Null
                \/ /\ blob' = blob
                   /\ response'.draft_url = Null
                   /\ response'.draft_base64 # Null
             /\ response'.video_url = response.video_url
             /\ response'.video_base64 = response.video_base64
    ]_vars

\* Credentials were supplied and both artifacts requested: the upload of the
\* video was rejected, so it is delivered inline, and the bundle was uploaded.
C12_Witness ==
  /\ pc = "done"
  /\ result.status = "complete"
  /\ request.output_format = "both"
  /\ HasCredentials(request)
  /\ result.video_url = Null /\ result.video_base64 # Null
  /\ result.draft_url # Null /\ result.draft_base64 = Null
  /\ blob = <<DraftKey>>

\* The frames of a clip, numbered from 0: frame n is shown at n / fps seconds.
Frames(clip, fps) == 0..(clip.dur * fps - 1)

\* C13 as stated: in the captioned clip each caption is drawn on exactly the
\* frames of its half-open window: those at or after start_time and before
\* end_time, so not on a frame at exactly end_time.
C13_CaptionWindowHalfOpen ==
  (pc = "music" /\ Exists(files, CaptionedPath)) =>
     LET clip == files[CaptionedPath]
         fps == request.fps
     IN  \A k \in 1..Len(clip.caps) : \A n \in Frames(clip, fps) :
           between(n, fps, clip.caps[k].enable[1], clip.caps[k].enable[2])
             <=> /\ request.captions[k].start_time * fps <= n * One
                 /\ n * One < request.captions[k].end_time * fps

\* The values of the class CaptionData for the fields a caption can style
\* itself with.
CaptionDefaults == CaptionData("", 0, 0)

\* C14 as stated: a burned caption is drawn with the global style, except
\* that a caption carrying its own font size, font colour, background colour
\* or position is drawn with its own value of that field.
C14_CaptionOverridesStyle ==
  (pc = "music" /\ Exists(files, CaptionedPath)) =>
     LET clip == files[CaptionedPath]
         style == IF request.caption_style # <<>> THEN request.caption_style[1]
                  ELSE CaptionStyleData
     IN  \A k \in 1..Len(clip.caps) :
           LET c == request.captions[k]
               d == clip.caps[k]
           IN  /\ d.fontsize = IF c.font_size # CaptionDefaults.font_size
                                 THEN c.font_size
                                 ELSE font_size_map(style.font_size)
               /\ d.fontcolor = IF c.font_color # CaptionDefaults.font_color
                                  THEN c.font_color ELSE style.font_color
               /\ d.y = IF c.position # CaptionDefaults.position
                          THEN c.position ELSE style.position
               /\ c.background_color # CaptionDefaults.background_color
                    => d.boxcolor = c.background_color

\* C15: the caption stage and the music stage return True on every path and
\* hand on a clip whenever they are given one: with no captions, or with a
\* failed overlay, the captioned clip is the composed clip unchanged; with a
\* music source that cannot be fetched, or a failed mix, the final clip is
\* the captioned clip unchanged.
C15_StagesPassThrough ==
  /\ FoldFinished =>
       \A r \in burn_captions(files, composed_path, CaptionedPath,
                              request.captions, request.caption_style) :
         /\ r.ok
         /\ request.captions = <<>> => r.how = "copy"
         /\ Exists(files, composed_path) =>
              /\ Exists(r.files, CaptionedPath)
              /\ r.how \in {"copy", "failed"}
                   => r.files[CaptionedPath] = files[composed_path]
  /\ (pc = "music" /\ request.music # <<>>) =>
       \A r \in add_music(files, CaptionedPath, FinalPath,
                          ApplyAudioSettings(request).music[1],
                          video_duration(files, request)) :
         /\ r.ok
         /\ Exists(files, CaptionedPath) =>
              /\ Exists(r.files, FinalPath)
              /\ r.how \in {"fetch_failed", "failed"}
                   => r.files[FinalPath] = files[CaptionedPath]
  /\ (pc \in {"music", "outputs", "video", "draft"}
      /\ Exists(files, composed_path)) =>
       /\ Exists(files, CaptionedPath)
       /\ \/ files[CaptionedPath] = files[composed_path]
          \/ /\ request.captions # <<>>
             /\ files[CaptionedPath].caps # <<>>
             /\ files[CaptionedPath] =
                  [files[composed_path] EXCEPT !.caps = files[CaptionedPath].caps]
  /\ (pc \in {"outputs", "video", "draft"} /\ Exists(files, CaptionedPath)) =>
       /\ Exists(files, FinalPath)
       /\ \/ files[FinalPath] = files[CaptionedPath]
          \/ /\ request.music # <<>>
             /\ files[FinalPath].music # <<>>
             /\ files[FinalPath] =
                  [files[CaptionedPath] EXCEPT !.music = files[FinalPath].music]

\* Captions and music were requested, the overlay and the music stage both
\* failed, and the final clip is the composed clip unchanged.
C15_Witness ==
  /\ pc = "outputs"
  /\ request.captions # <<>>
  /\ request.music # <<>>
  /\ Len(scene_videos) = 2
  /\ Exists(files, composed_path)
  /\ Exists(files, FinalPath)
  /\ files[FinalPath] = files[composed_path]

\* The transition type the request asks for at the boundary after the k-th
\* surviving scene.
RequestedTransition(k) ==
  LET own == request.scenes[scene_videos[k].scene].transition_to_next
  IN  IF own # Null THEN own ELSE request.transition_style

\* C16: each boundary of the fold is joined with the transition_to_next of
\* the scene before it when that is set, else with the global
\* transition_style: for "none" by simple_concat, a plain cut; for any other
\* type by apply_transition, whose cut is the xfade transition of that type
\* (the plain cut of the concat filter for a type it does not recognize) or,
\* when the encoder failed, the plain cut of its fallback.
C16_TransitionOfPreviousScene ==
  /\ \A k \in 1..Len(joins) :
       IF RequestedTransition(k) = "none"
         THEN joins[k] \in {"concat", "lost"}
         ELSE IF RequestedTransition(k) \in RecognizedTransitions
           THEN joins[k] \in {"xfade", "fallback", "lost", "error"}
           ELSE joins[k] \in {"concat", "fallback", "lost", "error"}
  /\ (pc = "compose" /\ Exists(files, composed_path)) =>
       LET clip == files[composed_path]
       IN  /\ Len(clip.cuts) = Len(joins)
           /\ \A k \in 1..Len(joins) :
                clip.cuts[k] = IF joins[k] = "xfade"
                                 THEN XfadeTransition(RequestedTransition(k))
                                 ELSE "none"
           /\ (\A k \in 1..Len(joins) : RequestedTransition(k) = "none")
                => clip.dur = SumSeq([k \in 1..Len(clip.ids) |->
                                        files[scene_videos[k].path].dur])

\* Three scenes: the first asks for "none", the second for "slideLeft" and
\* the global style is "fade"; the clips are cut plainly, then by slideleft.
C16_Witness ==
  /\ FoldFinished
  /\ Len(scene_videos) = 3
  /\ request.transition_style = "fade"
  /\ scene_videos[1].transition = "none"
  /\ scene_videos[2].transition = "slideLeft"
  /\ joins = <<"concat", "xfade">>
  /\ Exists(files, composed_path)
  /\ files[composed_path].cuts = <<"none", "slideleft">>
  /\ files[composed_path].dur = 8

\* The scenes of the first n clips handed to the sequencer, in the order of
\* scene_videos.
SurvivorsInOrder(n) == [k \in 1..n |-> scene_videos[k].scene]

\* C17: the clips handed to the sequencer are in the order of the request's
\* scene list, each scene at most once and each clip showing its own scene;
\* the running composed clip shows the clips folded so far in that order, and
\* the captioned and the final clip show all of them in that order.
C17_SceneOrderPreserved ==
  /\ \A a, b \in 1..Len(scene_videos) :
       a < b => scene_videos[a].scene < scene_videos[b].scene
  /\ \A k \in 1..Len(scene_videos) :
       Exists(files, scene_videos[k].path)
         => files[scene_videos[k].path].ids = <<scene_videos[k].scene>>
  /\ (pc = "compose" /\ Exists(files, composed_path))
       => files[composed_path].ids = SurvivorsInOrder(j - 1)
  /\ (pc \in {"music", "outputs", "video", "draft"}
      /\ Exists(files, CaptionedPath))
       => files[CaptionedPath].ids = SurvivorsInOrder(Len(scene_videos))
  /\ (pc \in {"outputs", "video", "draft"} /\ Exists(files, FinalPath))
       => files[FinalPath].ids = SurvivorsInOrder(Len(scene_videos))

\* Of three scenes the second was dropped; the final clip shows the first and
\* then the third.
C17_Witness ==
  /\ pc = "outputs"
  /\ Len(request.scenes) = 3
  /\ fate[2] \in {"fetch_failed", "normalize_failed"}
  /\ Exists(files, FinalPath)
  /\ files[FinalPath].ids = <<1, 3>>

\* C18 as stated: every clip handed to the sequencer lasts exactly the
\* declared duration of its scene.
C18_ClipHasDeclaredDuration ==
  \A k \in 1..Len(scene_videos) :
    Exists(files, scene_videos[k].path)
      => files[scene_videos[k].path].dur =
           request.scenes[scene_videos[k].scene].duration

\* C19 as stated: the clip handed to the sequencer for a scene with
\* strip_original_audio carries none of the scene's own audio: at most its
\* voiceovers are heard in it.
C19_StrippedClipHasNoOwnAudio ==
  \A k \in 1..Len(scene_videos) :
    (/\ request.scenes[scene_videos[k].scene].strip_original_audio
     /\ Exists(files, scene_videos[k].path))
      => OriginalAudio \notin files[scene_videos[k].path].audio

\* A timecode <<h, m, s, ms>> read back, in milliseconds.
ParseTimecode(tc) == (tc[1] * 3600 + tc[2] * 60 + tc[3]) * 1000 + tc[4]

\* A float time to the nearest millisecond.
Milliseconds(t) == (t * 1000 + One \div 2) \div One

\* C20 as stated: the timecodes of the generated transcript, read back, are
\* the start and the end time of each caption to the millisecond.
C20_SrtRoundTrip ==
  \A n \in 1..Len(response.srt_content) :
    /\ ParseTimecode(response.srt_content[n].start)
         = Milliseconds(request.captions[n].start_time)
    /\ ParseTimecode(response.srt_content[n].end)
         = Milliseconds(request.captions[n].end_time)

\* C21: the result carries a transcript exactly when the render completed,
\* include_srt is set and there are captions; the transcript then has one
\* block per caption, in the order of the caption list and numbered 1..n, with
\* the caption's text and the timecodes of its start and end time.
C21_TranscriptWhenRequested ==
  pc = "done" =>
    /\ result.srt_content # <<>>
         <=> /\ result.status = "complete"
             /\ request.include_srt
             /\ request.captions # <<>>
    /\ result.srt_content # <<>> =>
         /\ Len(result.srt_content) = Len(request.captions)
         /\ \A n \in 1..Len(request.captions) :
              /\ result.srt_content[n].number = n
              /\ result.srt_content[n].text = request.captions[n].text
              /\ result.srt_content[n].start
                   = format_time(request.captions[n].start_time)
              /\ result.srt_content[n].end
                   = format_time(request.captions[n].end_time)

\* A completed render of two captions, the later one listed first: the
\* transcript has them in list order, numbered 1 and 2.
C21_Witness ==
  /\ pc = "done"
  /\ result.status = "complete"
  /\ Len(request.captions) = 2
  /\ request.captions[1].start_time > request.captions[2].start_time
  /\ Len(result.srt_content) = 2
  /\ result.srt_content[1].number = 1
  /\ result.srt_content[2].number = 2
  /\ result.srt_content[1].start = <<0, 0, 1, 0>>
  /\ result.srt_content[2].start = <<0, 0, 0, 500>>

\* The segments of a track are in the order of their start times and no
\* two of them overlap.
OrderedDisjoint(segments) ==
  \A a, b \in 1..Len(segments) :
    a < b => segments[a].start + segments[a].duration <= segments[b].start

\* C22 as stated: in every generated bundle the segments of the video track,
\* of the audio track and of the text track are ordered by start time and
\* pairwise non-overlapping.
C22_TracksOrderedDisjoint ==
  draft_content # <<>> =>
    /\ OrderedDisjoint(draft_content[1].video_segments)
    /\ OrderedDisjoint(draft_content[1].audio_segments)
    /\ OrderedDisjoint(draft_content[1].text_segments)

\* C23: the voiceover command of a scene's clip has one filter per downloaded
\* voiceover, each reading the input that carries that voiceover's own file,
\* delayed by its start_time in whole milliseconds and scaled by its volume;
\* no voiceover is read twice; with strip_original_audio the scene's own
\* audio is left out and the voiceovers are mixed with duration=longest, or
\* the only one is mapped directly; without it [0:a] is mixed in first with
\* duration=first.
C23_VoiceoverMix ==
  \A k \in 1..Len(scene_videos) :
    (/\ Exists(files, scene_videos[k].path)
     /\ files[scene_videos[k].path].mix # <<>>)
      => LET scene == request.scenes[scene_videos[k].scene]
             vos == scene.voiceovers
             clip == files[scene_videos[k].path]
             mix == clip.mix[1]
         IN  /\ Len(mix.parts) = Len(mix.inputs) - 1
             /\ Len(mix.parts) >= 1
             /\ mix.inputs[1] = OriginalAudio
             /\ \A n \in DOMAIN mix.parts :
                  /\ mix.parts[n].input_idx + 1 \in 2..Len(mix.inputs)
                  /\ \E v \in DOMAIN vos :
                       /\ mix.inputs[mix.parts[n].input_idx + 1] = Voiceover(v)
                       /\ mix.parts[n].delay_ms = vos[v].start_time * 1000
                       /\ mix.parts[n].volume = vos[v].volume
             /\ \A m, n \in DOMAIN mix.parts :
                  mix.parts[m].input_idx = mix.parts[n].input_idx => m = n
             /\ \A m, n \in DOMAIN mix.inputs :
                  mix.inputs[m] = mix.inputs[n] => m = n
             /\ mix.original = ~scene.strip_original_audio
             /\ mix.duration =
                  (IF ~scene.strip_original_audio THEN "first"
                   ELSE IF Len(mix.parts) > 1 THEN "longest" ELSE "direct")
             /\ clip.audio =
                  (IF scene.strip_original_audio THEN {} ELSE {OriginalAudio})
                  \cup {mix.inputs[n] : n \in 2..Len(mix.inputs)}

\* The first voiceover of two failed to download, and the second alone is
\* heard in the stripped clip, as input 1 with its own delay and volume.
C23_Witness ==
  /\ Len(scene_videos) = 1
  /\ Exists(files, scene_videos[1].path)
  /\ request.scenes[1].strip_original_audio
  /\ Len(request.scenes[1].voiceovers) = 2
  /\ files[scene_videos[1].path].mix # <<>>
  /\ files[scene_videos[1].path].mix[1].inputs = <<OriginalAudio, Voiceover(2)>>
  /\ files[scene_videos[1].path].mix[1].parts =
       <<[input_idx |-> 1, delay_ms |-> 1000, volume |-> 2]>>
  /\ files[scene_videos[1].path].mix[1].duration = "direct"

\* C24: in the music command of the final clip the fade-in is present
\* exactly when its length is positive, and starts at 0; the fade-out is
\* present exactly when its length is positive, and ends at the duration of
\* the final clip; [0:a] is the first input of the mix, the mix has
\* duration=first, and the final clip is as long as the clip the music was
\* mixed into.
C24_MusicEnvelope ==
  (/\ pc \in {"outputs", "video", "draft"}
   /\ Exists(files, FinalPath)
   /\ files[FinalPath].music # <<>>)
    => LET m == files[FinalPath].music[1]
           music == request.music[1]
       IN  /\ (m.fade_in # <<>>) = (music.fade_in > 0)
           /\ m.fade_in # <<>> =>
                m.fade_in[1] = [st |-> 0, d |-> music.fade_in]
           /\ (m.fade_out # <<>>) = (music.fade_out > 0)
           /\ m.fade_out # <<>> =>
                /\ m.fade_out[1].d = music.fade_out
                /\ m.fade_out[1].st = files[FinalPath].dur - music.fade_out
                /\ m.fade_out[1].st + m.fade_out[1].d = files[FinalPath].dur
           /\ m.inputs[1] = "0:a"
           /\ m.duration = "first"
           /\ Exists(files, CaptionedPath)
           /\ files[FinalPath].dur = files[CaptionedPath].dur

\* Music with both fades was mixed into a clip that a transition made
\* shorter than the sum of the declared durations.
C24_Witness ==
  /\ pc = "outputs"
  /\ Exists(files, FinalPath)
  /\ files[FinalPath].music # <<>>
  /\ files[FinalPath].music[1].fade_in # <<>>
  /\ files[FinalPath].music[1].fade_out # <<>>
  /\ files[FinalPath].dur <
       SumSeq([k \in 1..Len(request.scenes) |-> request.scenes[k].duration])
  /\ Len(scene_videos) = Len(request.scenes)

\* Music was mixed in although both of its fade lengths are negative: the
\* command has no fade.
C24_WitnessNoFade ==
  /\ pc = "outputs"
  /\ Exists(files, FinalPath)
  /\ files[FinalPath].music # <<>>
  /\ request.music[1].fade_in < 0
  /\ request.music[1].fade_out < 0
  /\ files[FinalPath].music[1].fade_in = <<>>
  /\ files[FinalPath].music[1].fade_out = <<>>

\* A payload in canonical base64: characters of the alphabet, then pads, in
\* quads.
CanonicalBase64(s) ==
  /\ Len(s) % 4 = 0
  /\ \A k \in 1..Len(s) :
       \/ IsBase64Char(SubSeq(s, k, k))
       \/ /\ SubSeq(s, k, k) = "="
          /\ k > Len(s) - 2
          /\ \A m \in k..Len(s) : SubSeq(s, m, m) = "="

\* A reference that is neither a remote URL nor a data URL or raw payload in
\* canonical base64.
Malformed(url) ==
  CASE StartsWith(url, "data:") ->
         Commas(url) = {} \/ ~CanonicalBase64(AfterComma(url))
    [] StartsWith(url, "http") -> FALSE
    [] OTHER -> ~CanonicalBase64(url)

\* The reference the scene loop fetches for a scene.
SourceReference(scene) ==
  IF scene.video_url # Null THEN scene.video_url ELSE scene.image_url

\* C25 as stated: download_media returns failure for every unsupported or
\* malformed reference, and the scene loop skips the scene.
C25_MalformedReferenceFails ==
  \A k \in 1..Len(request.scenes) :
    (/\ fate[k] # "pending"
     /\ SourceReference(request.scenes[k]) # Null
     /\ Malformed(SourceReference(request.scenes[k])))
      => /\ fate[k] = "fetch_failed"
         /\ \A n \in 1..Len(scene_videos) : scene_videos[n].scene # k

\* C26: the clip of a scene that has a video source is made from the video,
\* never from its image; when the fetch of the video fails the scene gets no
\* clip and no entry in scene_videos, whether or not it has an image source.
C26_NoImageFallback ==
  \A k \in 1..Len(request.scenes) :
    LET scene == request.scenes[k]
    IN  /\ (scene.video_url # Null /\ Exists(files, ScenePath(k)))
             => files[ScenePath(k)].media = <<"video">>
        /\ (Exists(files, ScenePath(k))
            /\ files[ScenePath(k)].media = <<"image">>)
             => scene.video_url = Null
        /\ (scene.video_url # Null /\ scene.image_url # Null
            /\ fate[k] = "fetch_failed")
             => /\ ~Exists(files, ScenePath(k))
                /\ \A n \in 1..Len(scene_videos) : scene_videos[n].scene # k

\* A scene with a remote video and a remote image: the video could not be
\* fetched and the scene was dropped.
C26_Witness ==
  /\ pc = "scenes"
  /\ i = 2
  /\ request.scenes[1].video_url = "http://video"
  /\ request.scenes[1].image_url = "http://image"
  /\ fate[1] = "fetch_failed"
  /\ scene_videos = <<>>
  /\ ~Exists(files, ScenePath(1))

\* The transitions the surviving scenes but the last ask for, as xfade
\* transitions: what a join of the fold may apply.
SurvivorTransitions ==
  {XfadeTransition(RequestedTransition(k)) : k \in 1..(Len(scene_videos) - 1)}

\* C27: once the fold has run, n surviving clips were joined by exactly n-1
\* joins (none for one clip); join k was made by the rule of the k-th
\* surviving scene (an effect only for a type that scene asks for and
\* apply_transition recognizes, a plain concatenation only for another), and
\* every transition in the composed clip is one the surviving scenes but the
\* last ask for.
C27_JoinsOverSurvivors ==
  /\ (pc \in {"compose", "music", "outputs", "video", "draft"}) =>
       /\ Len(joins) = Min(j, Len(scene_videos) + 1) - 2
       /\ \A k \in 1..Len(joins) :
            LET own == request.scenes[scene_videos[k].scene].transition_to_next
                type == IF own # Null THEN own ELSE request.transition_style
            IN  /\ (joins[k] = "concat") => (type \notin RecognizedTransitions)
                /\ (joins[k] = "xfade") => (type \in RecognizedTransitions)
  /\ (pc \in {"music", "outputs", "video", "draft"} \/ FoldFinished) =>
       /\ Len(joins) = Len(scene_videos) - 1
       /\ Len(scene_videos) = 1 => joins = <<>>
       /\ Exists(files, composed_path) =>
            /\ Len(files[composed_path].cuts) = Len(scene_videos) - 1
            /\ \A k \in 1..Len(files[composed_path].cuts) :
                 files[composed_path].cuts[k] \in SurvivorTransitions \cup {"none"}

\* The second of three scenes asks for "slideLeft" and was dropped, the
\* third asks for "none": the two surviving clips were joined once, by the
\* global "fade" the first scene falls back to.
C27_Witness ==
  /\ FoldFinished
  /\ Len(request.scenes) = 3
  /\ Survivors = {1, 3}
  /\ request.scenes[1].transition_to_next = Null
  /\ request.scenes[2].transition_to_next = "slideLeft"
  /\ request.scenes[3].transition_to_next = "none"
  /\ joins = <<"xfade">>
  /\ Exists(files, composed_path)
  /\ files[composed_path].cuts = <<"fade">>

\* The sum of the declared durations of the first n scenes of the request,
\* in microseconds.
DeclaredMicroseconds(n) ==
  SumSeq([k \in 1..n |-> request.scenes[k].duration * 1000000])

\* C28: the video track of the draft has one segment per scene of the
\* request, clip or no clip; segment k starts at the sum of the declared
\* durations before it and lasts the declared duration of scene k, in
\* microseconds; the draft's duration, and the music segment, which starts
\* at 0, span the sum of all declared durations.
C28_DraftFromRequestScenes ==
  draft_content # <<>> =>
    LET draft == draft_content[1]
    IN  /\ Len(draft.video_segments) = Len(request.scenes)
        /\ \A k \in 1..Len(draft.video_segments) :
             /\ draft.video_segments[k].start = DeclaredMicroseconds(k - 1)
             /\ draft.video_segments[k].duration =
                  request.scenes[k].duration * 1000000
        /\ draft.duration = DeclaredMicroseconds(Len(request.scenes))
        /\ \A k \in 1..Len(draft.audio_segments) :
             /\ draft.audio_segments[k].start = 0
             /\ draft.audio_segments[k].duration =
                  DeclaredMicroseconds(Len(request.scenes))
        /\ (request.music # <<>>) = (Len(draft.audio_segments) = 1)

\* One of two scenes was dropped: the draft still has two video segments,
\* and is longer than the rendered video.
C28_Witness ==
  /\ pc = "returned"
  /\ draft_content # <<>>
  /\ Len(request.scenes) = 2
  /\ Len(scene_videos) = 1
  /\ Len(draft_content[1].video_segments) = 2
  /\ draft_content[1].video_segments[2].start = request.scenes[1].duration * 1000000
  /\ response.status = "complete"
  /\ response.duration > 0
  /\ response.duration * 1000000 < draft_content[1].duration

\* Both scenes have a clip and the transition overlapped them: the draft,
\* with its music segment, is longer than the rendered video.
C28_WitnessOverlap ==
  /\ pc = "returned"
  /\ draft_content # <<>>
  /\ Len(scene_videos) = 2
  /\ joins = <<"xfade">>
  /\ Len(draft_content[1].audio_segments) = 1
  /\ response.duration > 0
  /\ response.duration * 1000000 < draft_content[1].audio_segments[1].duration

\* What step 4 and the draft export do with the music settings.
MusicSettingsStep ==
  /\ pc # "music" => request' = request
  /\ (pc = "music" /\ (request.music = <<>> \/ request.audio_settings = <<>>))
       => request' = request
  /\ (pc = "music" /\ request.music # <<>> /\ request.audio_settings # <<>>)
       => request' =
            [request EXCEPT !.music = <<[request.music[1] EXCEPT
               !.volume = request.audio_settings[1].music_volume,
               !.fade_in = request.audio_settings[1].fade_in,
               !.fade_out = request.audio_settings[1].fade_out]>>]
  /\ (pc = "music" /\ Exists(files', FinalPath)
      /\ files'[FinalPath].music # <<>>)
       => LET m == files'[FinalPath].music[1]
              settings == IF request.audio_settings # <<>>
                            THEN [volume |-> request.audio_settings[1].music_volume,
                                  fade_in |-> request.audio_settings[1].fade_in,
                                  fade_out |-> request.audio_settings[1].fade_out]
                            ELSE [volume |-> request.music[1].volume,
                                  fade_in |-> request.music[1].fade_in,
                                  fade_out |-> request.music[1].fade_out]
          IN  /\ m.volume = settings.volume
              /\ (m.fade_in # <<>>) = (settings.fade_in > 0)
              /\ m.fade_in # <<>> => m.fade_in[1].d = settings.fade_in
              /\ (m.fade_out # <<>>) = (settings.fade_out > 0)
              /\ m.fade_out # <<>> => m.fade_out[1].d = settings.fade_out
              /\ m.seek = 0
  /\ (pc = "draft" /\ draft_content' # <<>> /\ request.music # <<>>)
       => /\ Len(draft_content'[1].audio_segments) = 1
          /\ draft_content'[1].audio_segments[1].volume = request.music[1].volume
          /\ draft_content'[1].audio_segments[1].start = 0
          /\ request.audio_settings # <<>> =>
               draft_content'[1].audio_segments[1].volume =
                 request.audio_settings[1].music_volume

C29_WitnessMixed ==
  /\ pc = "outputs"
  /\ request.audio_settings # <<>>
  /\ Exists(files, FinalPath)
  /\ files[FinalPath].music # <<>>
  /\ files[FinalPath].music[1].volume = AudioSettingsData.music_volume
  /\ files[FinalPath].music[1].fade_in = <<[st |-> 0, d |-> AudioSettingsData.fade_in]>>
  /\ files[FinalPath].music[1].fade_out = <<>>

\* The boundaries joined so far whose transition is neither recognized nor
\* "none".
UnrecognizedBoundaries ==
  {k \in 1..Len(joins) :
     RequestedTransition(k) \notin RecognizedTransitions \cup {"none"}}

\* C30 as stated: a boundary whose transition name is not recognized is
\* joined by concatenation, with no overlap, and the render does not end in
\* an error.
C30_UnrecognizedTransitionConcatenates ==
  UnrecognizedBoundaries # {} =>
    /\ \A k \in UnrecognizedBoundaries : joins[k] \in {"concat", "fallback"}
    /\ (pc = "compose" /\ Exists(files, composed_path)) =>
         \A k \in UnrecognizedBoundaries :
           k <= Len(files[composed_path].cuts)
             => files[composed_path].cuts[k] = "none"
    /\ exc = Null
    /\ pc = "done" => result.status = "complete"

\* The part of C30 that holds: no join at an unrecognized boundary applies an
\* effect, and a composed clip that exists lasts the sum of its clips.
C30_UnrecognizedNeverOverlaps ==
  UnrecognizedBoundaries # {} =>
    /\ \A k \in UnrecognizedBoundaries : joins[k] # "xfade"
    /\ (FoldFinished /\ Exists(files, composed_path)
        /\ UnrecognizedBoundaries = 1..Len(joins)) =>
         /\ files[composed_path].dur = SumClipDurations
         /\ \A k \in 1..Len(joins) : files[composed_path].cuts[k] = "none"

\* The concat filter of apply_transition joined the two clips.
C30_WitnessConcat ==
  /\ FoldFinished
  /\ joins = <<"concat">>
  /\ UnrecognizedBoundaries = {1}
  /\ Exists(files, composed_path)
  /\ files[composed_path].dur = 5

====
